---- MODULE Spec2Model ----
(***************************************************************************)
(* Model of src/app.py, the Streamlit document data extractor.             *)
(*                                                                         *)
(* Streamlit re-executes main() from top to bottom after every user        *)
(* interaction.  The state is therefore the widget state that survives a   *)
(* rerun (radio, file uploader, selectbox, text input) together with a     *)
(* record `run` of everything the most recent execution of main() did:     *)
(* the messages it reported, the network calls it issued, what it          *)
(* displayed.  One action is one user interaction followed by the whole    *)
(* rerun of main().  The outcomes of the outside world (the extraction     *)
(* service's answer, the HTTP GET's answer) are inputs of the click.       *)
(*                                                                         *)
(* Strings are sequences of one-character strings, so that parsing and     *)
(* stripping are computed as the code computes them.                       *)
(***************************************************************************)
EXTENDS Integers, Sequences, FiniteSets, TLC

VARIABLES apiKey, input_method, uploaded_file, page_num, image_url, run,
          nClicks, nCalls

vars == <<apiKey, input_method, uploaded_file, page_num, image_url, run,
          nClicks, nCalls>>

----------------------------------------------------------------------------
(* Bounds *)

MaxTextLen == 2
MaxUrlLen == 5
MaxPages == 2
MaxClicks == 2

SeqsUpTo(S, n) == UNION {[1..k -> S] : k \in 0..n}

----------------------------------------------------------------------------
(* Images, files and payloads *)

\* Colour modes Image.open can report for the allowed png and jpeg uploads.
PngModes == {"1", "L", "LA", "P", "RGB", "RGBA", "I"}
JpegFileModes == {"L", "RGB", "CMYK"}
AlphaModes == {"LA", "RGBA"}

\* Modes the JPEG encoder writes; every other mode makes save() raise.
JpegModes == {"1", "L", "RGB", "CMYK"}

\* Number of channels of the JPEG written for a mode.
Channels(mode) ==
    CASE mode = "RGB" -> 3
      [] mode = "CMYK" -> 4
      [] OTHER -> 1

\* A decoded bitmap.  huge: a side exceeds what the JPEG format can hold.
PageImage(i, mode, huge) == [id |-> i, mode |-> mode, huge |-> huge]

NoFile == [mime |-> "none", corrupt |-> FALSE, pages |-> << >>]

ImageFiles ==
    {[mime |-> "image/png", corrupt |-> c, pages |-> <<PageImage(1, m, h)>>] :
        c \in BOOLEAN, m \in PngModes, h \in BOOLEAN}
    \cup
    {[mime |-> "image/jpeg", corrupt |-> c, pages |-> <<PageImage(1, m, h)>>] :
        c \in BOOLEAN, m \in JpegFileModes, h \in BOOLEAN}

\* convert_from_bytes is called with its defaults, which rasterize to RGB.
PdfFiles ==
    {[mime |-> "application/pdf", corrupt |-> c,
      pages |-> [i \in 1..n |-> PageImage(i, "RGB", i \in hs)]] :
        c \in BOOLEAN, n \in 0..MaxPages, hs \in SUBSET (1..MaxPages)}

\* The uploader filters on the extension; the browser may declare any type.
OtherFiles ==
    {[mime |-> "application/octet-stream", corrupt |-> FALSE,
      pages |-> <<PageImage(1, "RGB", FALSE)>>]}

Files == ImageFiles \cup PdfFiles \cup OtherFiles

NoPayload == [kind |-> "none", id |-> 0, channels |-> 0]
UrlBody == [kind |-> "raw", id |-> 0, channels |-> 0]

----------------------------------------------------------------------------
(* Image.save(format='JPEG') *)

JpegSave(image) ==
    IF image.mode \in JpegModes /\ ~image.huge
    THEN [ok |-> TRUE,
          bytes |-> [kind |-> "jpeg", id |-> image.id,
                     channels |-> Channels(image.mode)]]
    ELSE [ok |-> FALSE, bytes |-> NoPayload]

NeedsFlatten(mode) == mode = "RGBA"

\* Mutant: a failure to decode or encode is swallowed and a buffer returned.
process_image_file_nocheck(f) ==
    LET image == f.pages[1]
        flat == IF NeedsFlatten(image.mode)
                THEN [image EXCEPT !.mode = "RGB"] ELSE image
    IN  [bytes |-> [kind |-> "jpeg", id |-> image.id,
                    channels |-> Channels(flat.mode)],
         errors |-> << >>, raised |-> FALSE]

process_image_file(f) ==
    IF f.corrupt
    THEN [bytes |-> NoPayload, errors |-> <<"Error processing image">>,
          raised |-> TRUE]
    ELSE LET image == f.pages[1]
             flat == IF NeedsFlatten(image.mode)
                     THEN [image EXCEPT !.mode = "RGB"] ELSE image
             s == JpegSave(flat)
         IN  IF s.ok
             THEN [bytes |-> s.bytes, errors |-> << >>, raised |-> FALSE]
             ELSE [bytes |-> NoPayload,
                   errors |-> <<"Error processing image">>, raised |-> TRUE]

convert_pdf_to_images(f) == f.pages

process_pdf_file(f) ==
    IF f.corrupt
    THEN [images |-> << >>, errors |-> <<"Error processing PDF">>]
    ELSE [images |-> convert_pdf_to_images(f), errors |-> << >>]

----------------------------------------------------------------------------
(* Text returned by the extraction service, and str.strip / str.startswith *)

TextChars == {" ", "{", "[", "a"}
Whitespace == {" "}
Texts == SeqsUpTo(TextChars, MaxTextLen)

RECURSIVE lstrip(_)
lstrip(s) ==
    IF s = << >> THEN s
    ELSE IF s[1] \in Whitespace THEN lstrip(Tail(s)) ELSE s

RECURSIVE rstrip(_)
rstrip(s) ==
    IF s = << >> THEN s
    ELSE IF s[Len(s)] \in Whitespace
         THEN rstrip(SubSeq(s, 1, Len(s) - 1)) ELSE s

strip(s) == rstrip(lstrip(s))

startswith(s, c) == Len(s) >= 1 /\ s[1] = c

----------------------------------------------------------------------------
(* urllib.parse.urlparse on the typed string *)

UrlChars == {"h", ":", "/", "["}
scheme_chars == {"h"}
Urls == SeqsUpTo(UrlChars, MaxUrlLen)

\* str.find: index of the first c at or after position from, 0 when absent.
find(s, cs, from) ==
    IF \E i \in from..Len(s) : s[i] \in cs
    THEN CHOOSE i \in from..Len(s) :
            s[i] \in cs /\ \A j \in from..(i - 1) : s[j] \notin cs
    ELSE 0

urlparse(url) ==
    LET i == find(url, {":"}, 1)
        hasScheme == /\ i > 1
                     /\ url[1] \in scheme_chars
                     /\ \A k \in 1..(i - 1) : url[k] \in scheme_chars
        scheme == IF hasScheme THEN SubSeq(url, 1, i - 1) ELSE << >>
        rest == IF hasScheme THEN SubSeq(url, i + 1, Len(url)) ELSE url
        hasNetloc == Len(rest) >= 2 /\ rest[1] = "/" /\ rest[2] = "/"
        d == find(rest, {"/", "?", "#"}, 3)
        delim == IF d = 0 THEN Len(rest) + 1 ELSE d
        netloc == IF hasNetloc THEN SubSeq(rest, 3, delim - 1) ELSE << >>
        open == \E k \in 1..Len(netloc) : netloc[k] = "["
        close == \E k \in 1..Len(netloc) : netloc[k] = "]"
    IN  [scheme |-> scheme, netloc |-> netloc, raises |-> open # close]

\* Mutant: any() in place of all().
AnySchemeNetloc(result) == result.scheme # << >> \/ result.netloc # << >>

\* all([result.scheme, result.netloc])
AllSchemeNetloc(result) == result.scheme # << >> /\ result.netloc # << >>

----------------------------------------------------------------------------
(* The extraction service and the HTTP GET, as the outside world answers *)

\* transport: the call raises before an answer; service: the service answers
\* with an error and the client raises; none: the answer carries no content.
SvcOutcomes ==
    {[tag |-> t, val |-> << >>] : t \in {"transport", "service", "none"}}
    \cup {[tag |-> "text", val |-> t] : t \in Texts}

SvcFaults == {"transport", "service"}
NoSvc == [tag |-> "unused", val |-> << >>]
None == [tag |-> "none", val |-> << >>]

GetOutcomes ==
    {[tag |-> "raise", status |-> 0]}
    \cup {[tag |-> "status", status |-> c] : c \in {200, 404, 500}}

NoGet == [tag |-> "unused", status |-> 0]

\* Mutant: a failed call is answered with a placeholder text.
extract_data_from_image_placeholder(image_bytes, svc) ==
    IF svc.tag \in SvcFaults
    THEN [calls |-> <<image_bytes>>, errors |-> <<"Error extracting data">>,
          ret |-> [tag |-> "text", val |-> <<"{">>]]
    ELSE [calls |-> <<image_bytes>>, errors |-> << >>, ret |-> svc]

\* Mutant: a failed call is tried a second time.
extract_data_from_image_retry(image_bytes, svc) ==
    IF svc.tag \in SvcFaults
    THEN [calls |-> <<image_bytes, image_bytes>>,
          errors |-> <<"Error extracting data">>, ret |-> None]
    ELSE [calls |-> <<image_bytes>>, errors |-> << >>, ret |-> svc]

\* calls: the requests sent by client.chat.completions.create.
extract_data_from_image(image_bytes, svc) ==
    IF svc.tag \in SvcFaults
    THEN [calls |-> <<image_bytes>>, errors |-> <<"Error extracting data">>,
          ret |-> None]
    ELSE [calls |-> <<image_bytes>>, errors |-> << >>, ret |-> svc]

\* Python truth value of what extract_data_from_image returned.
Truthy(ret) == ret.tag = "text" /\ ret.val # << >>

\* Mutant: only trailing whitespace is removed before the test.
display_extracted_data_rstrip(data) ==
    IF startswith(rstrip(data), "{") \/ startswith(rstrip(data), "[")
    THEN "json" ELSE "text"

\* The rendering chosen: st.json or st.text_area.
display_extracted_data(data) ==
    IF startswith(strip(data), "{") \/ startswith(strip(data), "[")
    THEN "json" ELSE "text"

----------------------------------------------------------------------------
(* One execution of main() *)

EmptyRun ==
    [clicked |-> "none", errors |-> << >>, warnings |-> << >>,
     button |-> "none", nOptions |-> 0,
     image_bytes |-> NoPayload, images |-> << >>, encoded |-> << >>,
     gets |-> 0, get |-> NoGet,
     extractCalled |-> FALSE, svc |-> NoSvc, svcCalls |-> << >>,
     extracted_data |-> None,
     displayMode |-> "none", displayData |-> << >>, download |-> FALSE,
     uncaught |-> FALSE]

\* extracted_data = extract_data_from_image(...); if extracted_data: display
\* and offer the download.  The three input paths repeat this block.
ExtractAndDisplay(r, image_bytes, svc) ==
    LET e == extract_data_from_image(image_bytes, svc)
        r1 == [r EXCEPT !.extractCalled = TRUE, !.svc = svc,
                        !.svcCalls = r.svcCalls \o e.calls,
                        !.errors = r.errors \o e.errors,
                        !.extracted_data = e.ret]
    IN  IF Truthy(e.ret)
        THEN [r1 EXCEPT !.displayMode = display_extracted_data(e.ret.val),
                        !.displayData = e.ret.val,
                        !.download = TRUE]
        ELSE r1

ImageBranch(r, f, svc) ==
    LET p == process_image_file(f)
        r1 == [r EXCEPT !.errors = r.errors \o p.errors,
                        !.image_bytes = p.bytes]
    IN  IF p.bytes.kind # "none"
        THEN LET r2 == [r1 EXCEPT !.button = "image"]
             IN  IF r.clicked = "image"
                 THEN ExtractAndDisplay(r2, p.bytes, svc)
                 ELSE r2
        ELSE r1

PdfBranch(r, f, page, svc) ==
    LET p == process_pdf_file(f)
        images == p.images
        r1 == [r EXCEPT !.errors = r.errors \o p.errors, !.images = images]
    IN  IF images # << >>
        THEN LET r2 == [r1 EXCEPT !.nOptions = Len(images), !.button = "pdf"]
             IN  IF r.clicked = "pdf"
                 THEN LET s == JpegSave(images[page + 1])
                          r3 == [r2 EXCEPT
                                   !.encoded = <<images[page + 1].id>>,
                                   !.image_bytes = s.bytes]
                      IN  IF s.ok
                          THEN ExtractAndDisplay(r3, s.bytes, svc)
                          ELSE [r3 EXCEPT !.uncaught = TRUE]
                 ELSE r2
        ELSE r1

\* Mutant: any status below 500 is taken as a success.
StatusOk_lenient(response) == response.status < 500

\* response.status_code == 200
StatusOk(response) == response.status = 200

UrlBranch(r, url, get, svc) ==
    IF url = << >> THEN r
    ELSE LET result == urlparse(url)
         IN  IF result.raises
             THEN [r EXCEPT !.warnings =
                      r.warnings \o <<"Could not load image from this URL">>]
             ELSE IF AllSchemeNetloc(result)
             THEN LET r1 == [r EXCEPT !.button = "url"]
                  IN  IF r.clicked = "url"
                      THEN LET r2 == [r1 EXCEPT !.gets = r1.gets + 1,
                                                !.get = get]
                           IN  IF get.tag = "raise"
                               THEN [r2 EXCEPT !.warnings = r2.warnings \o
                                       <<"Could not load image from this URL">>]
                               ELSE IF StatusOk(get)
                               THEN ExtractAndDisplay(r2, UrlBody, svc)
                               ELSE [r2 EXCEPT !.errors = r2.errors \o
                                       <<"Failed to download image from URL">>]
                      ELSE r1
             ELSE [r EXCEPT !.warnings =
                      r.warnings \o <<"Please enter a valid URL">>]

main(key, method, f, page, url, clicked, get, svc) ==
    LET r == [EmptyRun EXCEPT !.clicked = clicked]
    IN  IF ~key
        THEN [r EXCEPT !.errors = <<"GROQ_API_KEY is not set">>]
        ELSE IF method = "upload"
        THEN IF f = NoFile THEN r
             ELSE IF f.mime \in {"image/png", "image/jpeg"}
             THEN ImageBranch(r, f, svc)
             ELSE IF f.mime = "application/pdf"
             THEN PdfBranch(r, f, page, svc)
             ELSE r
        ELSE UrlBranch(r, url, get, svc)

----------------------------------------------------------------------------
(* User interactions; each one reruns main() *)

\* Options the page selectbox will show for a widget state; a selectbox
\* keeps its value across reruns only while its options stay the same.
SelectboxOptions(method, f) ==
    IF method = "upload" /\ f.mime = "application/pdf"
    THEN Len(process_pdf_file(f).images) ELSE 0

KeptPage(method, f) ==
    IF SelectboxOptions(method, f) = run.nOptions /\ run.nOptions > 0
    THEN page_num ELSE 0

Rerun(method, f, page, url) ==
    /\ input_method' = method
    /\ uploaded_file' = f
    /\ page_num' = page
    /\ image_url' = url
    /\ run' = main(apiKey, method, f, page, url, "none", NoGet, NoSvc)
    /\ UNCHANGED <<apiKey, nClicks, nCalls>>

Click(get, svc) ==
    /\ nClicks < MaxClicks
    /\ run' = main(apiKey, input_method, uploaded_file, page_num, image_url,
                   run.button, get, svc)
    /\ nClicks' = nClicks + 1
    /\ nCalls' = nCalls + Len(run'.svcCalls)
    /\ UNCHANGED <<apiKey, input_method, uploaded_file, page_num, image_url>>

Init ==
    /\ apiKey \in BOOLEAN
    /\ input_method = "upload"
    /\ uploaded_file = NoFile
    /\ page_num = 0
    /\ image_url = << >>
    /\ run = main(apiKey, "upload", NoFile, 0, << >>, "none", NoGet, NoSvc)
    /\ nClicks = 0
    /\ nCalls = 0

\* Without the key main() returns before any widget is drawn.
SelectMethod ==
    /\ apiKey
    /\ \E m \in {"upload", "url"} :
          /\ m # input_method
          /\ Rerun(m, NoFile, 0, << >>)

UploadFile ==
    /\ apiKey
    /\ input_method = "upload"
    /\ \E f \in Files :
          /\ f # uploaded_file
          /\ Rerun("upload", f, KeptPage("upload", f), image_url)

RemoveFile ==
    /\ apiKey
    /\ input_method = "upload"
    /\ uploaded_file # NoFile
    /\ Rerun("upload", NoFile, 0, image_url)

SelectPage ==
    /\ run.nOptions > 0
    /\ \E i \in 0..(run.nOptions - 1) :
          /\ i # page_num
          /\ Rerun(input_method, uploaded_file, i, image_url)

\* The text input is edited by clearing it and typing a new string; main()
\* is rerun on each committed value.
TypeUrl ==
    /\ apiKey
    /\ input_method = "url"
    /\ image_url = << >>
    /\ \E u \in Urls \ {<< >>} : Rerun("url", uploaded_file, page_num, u)

ClearUrl ==
    /\ apiKey
    /\ input_method = "url"
    /\ image_url # << >>
    /\ Rerun("url", uploaded_file, page_num, << >>)

ClickExtractImage ==
    /\ run.button = "image"
    /\ \E svc \in SvcOutcomes : Click(NoGet, svc)

ClickExtractPage ==
    /\ run.button = "pdf"
    /\ \E svc \in SvcOutcomes : Click(NoGet, svc)

ClickExtractUrl ==
    /\ run.button = "url"
    /\ \E get \in GetOutcomes :
          \/ /\ get.status = 200
             /\ \E svc \in SvcOutcomes : Click(get, svc)
          \/ /\ get.status # 200
             /\ Click(get, NoSvc)

Next ==
    \/ SelectMethod
    \/ UploadFile
    \/ RemoveFile
    \/ SelectPage
    \/ TypeUrl
    \/ ClearUrl
    \/ ClickExtractImage
    \/ ClickExtractPage
    \/ ClickExtractUrl

Spec == Init /\ [][Next]_vars

----------------------------------------------------------------------------
(* Properties *)

Has(seq, x) == \E i \in 1..Len(seq) : seq[i] = x

\* A message of any kind was shown by the last run.
Reported == run.errors # << >> \/ run.warnings # << >>

Displayed == run.displayMode # "none"

IsImageUpload ==
    /\ apiKey
    /\ input_method = "upload"
    /\ uploaded_file.mime \in {"image/png", "image/jpeg"}

IsPdfUpload ==
    /\ apiKey
    /\ input_method = "upload"
    /\ uploaded_file.mime = "application/pdf"

\* C1: when the call to the extraction service fails (transport fault or
\* service-side error), the error is reported, extract_data_from_image
\* returns no result, nothing is displayed and no download is offered.
C1_ServiceFailureReported ==
    (run.extractCalled /\ run.svc.tag \in SvcFaults) =>
        /\ Has(run.errors, "Error extracting data")
        /\ run.extracted_data = None
        /\ run.displayMode = "none"
        /\ ~run.download

C1_Witness ==
    /\ run.clicked = "pdf"
    /\ run.extractCalled
    /\ run.svc.tag = "service"
    /\ Has(run.errors, "Error extracting data")

ParsesAbsolute(url) ==
    LET result == urlparse(url)
    IN  ~result.raises /\ result.scheme # << >> /\ result.netloc # << >>

\* C2: a typed string that does not parse with both a scheme and a host is
\* rejected before any network call: the run issues no GET and no service
\* call, and draws no Extract button that a click could use.
C2_InvalidUrlNoNetwork ==
    (input_method = "url" /\ ~ParsesAbsolute(image_url)) =>
        /\ run.gets = 0
        /\ run.svcCalls = << >>
        /\ run.button = "none"

C2_Witness ==
    /\ input_method = "url"
    /\ image_url = <<"h", ":">>
    /\ Has(run.warnings, "Please enter a valid URL")

\* The stages before the extraction request succeeded in the last click.
EarlierStagesOk ==
    \/ run.clicked = "image"
    \/ run.clicked = "pdf" /\ run.image_bytes.kind = "jpeg"
    \/ run.clicked = "url" /\ run.get.tag = "status" /\ run.get.status = 200

\* C3: a click whose earlier stages succeeded sends exactly one request to
\* the extraction service; no run sends more than one, a run without a click
\* sends none, and over the session there are never more requests than
\* clicks (a failed request is not repeated).
C3_OneCallPerClick ==
    /\ Len(run.svcCalls) <= 1
    /\ (run.clicked = "none" => run.svcCalls = << >>)
    /\ (EarlierStagesOk => Len(run.svcCalls) = 1)
    /\ nCalls <= nClicks

C3_Witness ==
    /\ run.clicked = "image"
    /\ run.svc.tag = "transport"
    /\ Len(run.svcCalls) = 1
    /\ nClicks = 2
    /\ nCalls = 2

\* C4: the PageSet of a PDF has the PDF's pages in document order, and a
\* click on the PDF's Extract button sends exactly one request, whose payload
\* comes from the selected page and from no other page.
C4_PdfPageExtraction ==
    /\ (IsPdfUpload /\ ~uploaded_file.corrupt) =>
            run.images = uploaded_file.pages
    /\ run.clicked = "pdf" =>
            /\ Len(run.svcCalls) = 1
            /\ run.svcCalls[1].id = uploaded_file.pages[page_num + 1].id
            /\ run.encoded = <<uploaded_file.pages[page_num + 1].id>>

\* C5: a click in the URL path performs a single GET; on a status other than
\* 200 the fetch failure is reported, the extraction service is not called,
\* nothing is displayed and no download is offered.
C5_FetchFailureStops ==
    /\ run.gets = (IF run.clicked = "url" THEN 1 ELSE 0)
    /\ (run.get.tag = "status" /\ run.get.status # 200) =>
            /\ Has(run.errors, "Failed to download image from URL")
            /\ ~run.extractCalled
            /\ run.svcCalls = << >>
            /\ run.displayMode = "none"
            /\ ~run.download

C5_Witness ==
    /\ run.clicked = "url"
    /\ run.get.tag = "status"
    /\ run.get.status = 404
    /\ run.gets = 1

\* C6: when an uploaded image cannot be decoded or an uploaded PDF cannot be
\* rasterized, the error is reported, no payload and no PageSet is produced,
\* and the Extract button is not drawn, so no service call can be made.
C6_DecodeFailureStops ==
    ((IsImageUpload \/ IsPdfUpload) /\ uploaded_file.corrupt) =>
        /\ run.errors = (IF IsImageUpload THEN <<"Error processing image">>
                         ELSE <<"Error processing PDF">>)
        /\ run.image_bytes = NoPayload
        /\ run.images = << >>
        /\ run.nOptions = 0
        /\ run.button = "none"
        /\ run.svcCalls = << >>

C6_Witness ==
    /\ IsImageUpload
    /\ uploaded_file.corrupt
    /\ run.errors = <<"Error processing image">>

\* C7: no exception propagates past main().
C7_NoExceptionPastMain == ~run.uncaught

\* C8: a click that reaches the extraction request ends with exactly one of
\* a displayed result or a reported error, whatever the service answers.
C8_DisplayedOrError ==
    (run.clicked # "none" /\ run.extractCalled) => (Displayed # Reported)

\* C9: a decoded upload that carries an alpha channel, in any alpha-bearing
\* mode, is flattened and encoded into a 3-channel payload.
C9_AlphaFlattened ==
    (/\ IsImageUpload
     /\ ~uploaded_file.corrupt
     /\ ~uploaded_file.pages[1].huge
     /\ uploaded_file.pages[1].mode \in AlphaModes) =>
        /\ run.image_bytes.kind = "jpeg"
        /\ run.image_bytes.channels = 3

\* The first character of s that is not whitespace, "" when there is none.
FirstNonWhitespace(s) ==
    LET I == {i \in 1..Len(s) : s[i] \notin Whitespace}
    IN  IF I = {} THEN ""
        ELSE s[CHOOSE i \in I : \A j \in I : i <= j]

\* C10: the structured rendering is chosen exactly when the first
\* non-whitespace character of the text is { or [, and the plain-text
\* rendering otherwise; the choice never counts as a failure.
C10_DisplayModeByLeadingChar ==
    Displayed =>
        /\ (run.displayMode = "json") <=>
               (FirstNonWhitespace(run.displayData) \in {"{", "["})
        /\ run.displayMode \in {"json", "text"}
        /\ run.errors = << >>

C10_Witness ==
    /\ run.displayMode = "json"
    /\ run.displayData = <<" ", "{">>

====
